---- MODULE Spec2Model ----
(***************************************************************************)
(* Model of luigi.contrib.vertica: VerticaTarget (the marker store) and    *)
(* CopyToTable.run (the bulk load with create-table retry).                *)
(*                                                                         *)
(* Specifications: Spec (load tasks run by concurrent workers), SpecSeq    *)
(* (load tasks run one after another), SpecQuery (VerticaQuery tasks),     *)
(* SpecTarget (clients calling exists, touch and create_marker_table with  *)
(* no connection argument) and SpecStage (the staging loop of run, with    *)
(* map_column, on rows of values).                                         *)
(*                                                                         *)
(* Each task is one CopyToTable instance run by a worker of its own on a   *)
(* connection of its own.  The database is the environment: the target     *)
(* table and the marker table, each with its committed rows, and for every *)
(* load connection the rows its open transaction has written but not yet   *)
(* committed.  The database behaves the way the source relies on:          *)
(*   - DDL (CREATE TABLE) is durable at once: create_marker_table never    *)
(*     commits and closes its connection, and the tests need the table;    *)
(*   - COPY and INSERT belong to the connection's transaction and become   *)
(*     durable at connection.commit() (vertica.py:272 "mark as complete in *)
(*     same transaction");                                                 *)
(*   - closing or resetting a connection discards its open transaction;    *)
(*   - the marker table's PRIMARY KEY (vertica.py:142) is enforced;        *)
(*   - a COPY that names a missing relation is rejected before any byte of *)
(*     the staged file is read.                                            *)
(***************************************************************************)
EXTENDS Integers, Sequences, FiniteSets, TLC

\* ------------------------------------------------------------------ bounds
MaxId == 1           \* update_ids are 0..MaxId
MaxRuns == 2         \* times the scheduler considers one task
MaxCalls == 2        \* calls of VerticaTarget methods one client makes
MaxRows == 2         \* rows that rows() yields to the staging loop

\* range(2) in CopyToTable.run
NumAttempts == 2

\* Two workers, each running one task instance on a connection of its own.
Tasks == {"w1", "w2"}
UpdateIds == 0..MaxId

\* The target table's name (self.table) as the marker row records it.
TableName == "metrics"

\* ------------------------------------------------------------- exceptions
MissingRelation == "MissingRelation"
DuplicateObject == "DuplicateObject"
QueryError == "QueryError"              \* any other database error
IntegrityError == "IntegrityError"      \* primary-key violation
ConfigException == "Exception"          \* raise Exception(...) in run / copy
AssertionError == "AssertionError"

\* What a user hook (init_copy, post_copy) may do when called.
HookOutcomes == {"ok", MissingRelation, QueryError}

\* ---------------------------------------------------------------- columns
\* An element of self.columns: a string, or a tuple of strings.
Str(s) == [isStr |-> TRUE, items |-> <<s>>]
Tup(t) == [isStr |-> FALSE, items |-> t]

ColumnsNames == <<Str("metric"), Str("value")>>
ColumnsPairs == <<Tup(<<"metric", "varchar">>), Tup(<<"value", "int">>)>>
ColumnsTriples == <<Tup(<<"metric", "varchar", "x">>)>>
ColumnsEmpty == <<>>
ColumnsValues == {ColumnsNames, ColumnsPairs, ColumnsTriples, ColumnsEmpty}

\* CopyToTable.copy, the shape check: the column names, or the exception.
ColumnNames(cols) ==
  IF cols[1].isStr
    THEN [ok |-> TRUE, names |-> [i \in 1..Len(cols) |-> cols[i].items[1]]]
  ELSE IF Len(cols[1].items) = 2
    THEN [ok |-> TRUE, names |-> [i \in 1..Len(cols) |-> cols[i].items[1]]]
  ELSE [ok |-> FALSE, names |-> <<>>]

\* "if not (self.table and self.columns)": an empty list is falsy.
Specified(cols) == TableName # "" /\ Len(cols) > 0

\* ------------------------------------------------------------------- rows
\* rows(): the unit of work 0 yields no row, the unit u yields 2u rows; a row
\* is tagged with its unit and its place.
Rows(u) == [i \in 1..(2 * u) |-> <<u, i>>]

\* ------------------------------------------------------------------ state
VARIABLES
  uid,            \* task -> its update_id
  columns,        \* self.columns of the task class (the tasks load one table)
  pc,             \* task -> where its worker is
  runs,           \* task -> times the scheduler has considered it
  attempt,        \* task -> the loop variable of "for attempt in range(2)"
  staged,         \* task -> the rows written to tmp_file
  filepos,        \* task -> tmp_file's position, in rows
  conn,           \* task -> its load connection and open transaction
  tableExists,    \* the target table exists
  tableRows,      \* the target table's committed rows, in load order
  markerExists,   \* the marker table exists
  markerRows,     \* the marker table's committed rows
  result,         \* task -> how its last run ended
  err,            \* task -> the exception its last run raised
  hist,           \* task -> what the current (or last) run has done so far
  skips,          \* task -> schedulings that found the unit complete
  touched,        \* update_ids for which touch has returned normally
  loaded,         \* update_ids whose copy has been committed
  call,           \* client -> its call of a VerticaTarget method, in progress
  null_values,    \* self.null_values of the task that stages
  row_source,     \* the rows that rows() yields
  tmp_file        \* the bytes written to tmp_file, one sequence per write

vars == <<uid, columns, pc, runs, attempt, staged, filepos, conn, tableExists,
          tableRows, markerExists, markerRows, result, err, hist, skips,
          touched, loaded, call, null_values, row_source, tmp_file>>

\* The staging loop's variables, and with them the clients' calls.
stagevars == <<null_values, row_source, tmp_file>>
apivars == <<call, stagevars>>

\* The tasks' variables.
taskvars == <<uid, columns, pc, runs, attempt, staged, filepos, conn, result,
              err, hist, skips, touched, loaded>>

dbvars == <<tableExists, tableRows, markerExists, markerRows>>

\* A connection with no open transaction.
\* poisoned: a statement on it failed with relation-missing and
\* reset_connection has not been called since.
FreshConn == [open |-> TRUE, rows |-> <<>>, markers |-> <<>>, copied |-> FALSE,
              poisoned |-> FALSE]
NoConn == [open |-> FALSE, rows |-> <<>>, markers |-> <<>>, copied |-> FALSE,
           poisoned |-> FALSE]

\* What a run has done: calls made, and whether the environment failed it.
\* posts: post_copy calls; postOk: the attempts whose post_copy returned;
\* raisedBy: the step whose exception the try block saw last; execs: the
\* statements VerticaQuery.run has executed.
NoHist == [opened |-> FALSE, stagedRows |-> 0, inits |-> 0, copies |-> 0,
           posts |-> 0, postOk |-> {}, raisedBy |-> "none", execs |-> 0,
           creates |-> 0, touches |-> 0, copyErr |-> FALSE, fault |-> FALSE]

\* A client of VerticaTarget and its call in progress: the method, where the
\* call is, the connection touch or exists opened for itself, what the CREATE
\* TABLE of create_marker_table did, the connections the call has opened and
\* closed, what it returned or raised, and the calls the client has made.
Clients == {"c1", "c2"}

NoCall == [op |-> "none", pc |-> "idle", uid |-> 0, conn |-> NoConn,
           ddl |-> "none", opened |-> 0, closed |-> 0,
           ret |-> "none", exc |-> "none", n |-> 0]

InRun == {"init", "copy", "post", "reset", "create", "execute", "cmt", "insert",
          "commit", "verify", "exit"}

\* No task has run, no client has called, nothing is being staged.
InitQuiet ==
  /\ pc = [t \in Tasks |-> "idle"]
  /\ runs = [t \in Tasks |-> 0]
  /\ attempt = [t \in Tasks |-> 0]
  /\ staged = [t \in Tasks |-> <<>>]
  /\ filepos = [t \in Tasks |-> 0]
  /\ conn = [t \in Tasks |-> NoConn]
  /\ result = [t \in Tasks |-> "none"]
  /\ err = [t \in Tasks |-> "none"]
  /\ hist = [t \in Tasks |-> NoHist]
  /\ skips = [t \in Tasks |-> 0]
  /\ touched = {}
  /\ loaded = {}
  /\ call = [c \in Clients |-> NoCall]

\* Nothing is being staged.
InitNoStage ==
  /\ null_values = {}
  /\ row_source = <<>>
  /\ tmp_file = <<>>

\* The tests' database after the DROP TABLE IF EXISTS statements.
InitDb ==
  /\ tableExists = FALSE
  /\ tableRows = <<>>
  /\ markerExists = FALSE
  /\ markerRows = <<>>

Init ==
  /\ uid \in [Tasks -> UpdateIds]
  /\ columns \in ColumnsValues
  /\ InitQuiet
  /\ InitNoStage
  /\ InitDb

\* ------------------------------------------------------- the marker store
MarkerRow(u) == [update_id |-> u, target_table |-> TableName]

HasId(rows, u) == \E i \in 1..Len(rows) : rows[i].update_id = u

\* Mutant: the SELECT names a table that is missing, which exists takes for
\* "no row".
ExistsNever(u) == FALSE

\* cursor.execute("SELECT 1 FROM marker_table WHERE update_id = :uid LIMIT 1")
\* and cursor.fetchone(), among the rows the connection sees: the exception
\* raised, or the row fetched.
SelectMarker(visible, u) ==
  IF ~markerExists THEN [exc |-> MissingRelation, row |-> "None"]
  ELSE [exc |-> "none", row |-> IF HasId(visible, u) THEN "1" ELSE "None"]

\* Mutant: exists without its try block.
ExistsCaughtNone(e) == FALSE

\* except vertica_python.errors.MissingRelation
ExistsCaught(e) == e = MissingRelation

\* VerticaTarget.exists from the SELECT on: "row = None" in the handler, and
\* "return row is not None"; an exception not caught leaves exists.
ExistsFrom(s) ==
  LET row == IF s.exc = "none" THEN s.row ELSE "None"
  IN  IF s.exc = "none" \/ ExistsCaught(s.exc)
        THEN [exc |-> "none", ret |-> row # "None"]
        ELSE [exc |-> s.exc, ret |-> FALSE]

\* VerticaTarget.exists on a connection of its own: committed rows only; a
\* missing marker table is "no row".
Exists(u) == ExistsFrom(SelectMarker(markerRows, u)).ret

\* VerticaTarget.exists(connection): the connection also sees its own writes.
ExistsOn(t, u) == ExistsFrom(SelectMarker(markerRows \o conn[t].markers, u)).ret

\* Mutant: update_id declared without PRIMARY KEY.
KeyNeverTaken(u) == FALSE

\* update_id VARCHAR PRIMARY KEY: an insert of a committed key is rejected.
KeyTaken(u) == HasId(markerRows, u)

\* An insert of a key that another open transaction has inserted waits for it.
KeyPending(t, u) == \E o \in Tasks \ {t} : HasId(conn[o].markers, u)

\* Mutant: a bare "except:" around the CREATE TABLE.
SwallowedAny(e) == TRUE

\* except vertica_python.errors.DuplicateObject: pass
Swallowed(e) == e = DuplicateObject

\* ------------------------------------------------------- CopyToTable.run
\* Mutant: a bare "except:" around the attempt.
CaughtAny(e) == TRUE

\* except vertica_python.errors.MissingRelation
Caught(e) == e = MissingRelation

\* Mutant: the handler retries on every attempt.
RetryAlways(a) == TRUE

\* if attempt == 0
RetryAllowed(a) == a = 0

\* tmp_file.seek(0), once, before the loop
SeekStart == 0

\* The worker-local state of task t, as one record.
Local(t) ==
  [pc |-> pc[t], attempt |-> attempt[t],
   staged |-> staged[t], filepos |-> filepos[t], conn |-> conn[t],
   result |-> result[t], err |-> err[t], hist |-> hist[t]]

SetLocal(t, r) ==
  /\ pc' = [pc EXCEPT ![t] = r.pc]
  /\ attempt' = [attempt EXCEPT ![t] = r.attempt]
  /\ staged' = [staged EXCEPT ![t] = r.staged]
  /\ filepos' = [filepos EXCEPT ![t] = r.filepos]
  /\ conn' = [conn EXCEPT ![t] = r.conn]
  /\ result' = [result EXCEPT ![t] = r.result]
  /\ err' = [err EXCEPT ![t] = r.err]
  /\ hist' = [hist EXCEPT ![t] = r.hist]

\* run is being left, by return or by an exception.
Leaving(r, how, e) == [r EXCEPT !.pc = "exit", !.result = how, !.err = e]

\* An exception leaves run.
Propagate(r, e) == Leaving(r, "failed", e)

\* run has been left: the connection is closed (its open transaction is
\* discarded), the temporary file is gone, and so are run's locals.  What is
\* remembered of the run: of one that returned, whether a hook had raised in
\* it; of one that failed, whether a copy attempt had failed in it.
Left(r) ==
  [r EXCEPT !.pc = "idle", !.conn = NoConn, !.staged = <<>>, !.filepos = 0,
            !.attempt = 0, !.err = "none",
            !.hist = [NoHist EXCEPT !.fault = r.result = "done" /\ r.hist.fault,
                                    !.copyErr = r.hist.copyErr]]

\* A statement that failed with relation-missing leaves the connection's
\* transaction unusable until reset_connection.
Failed(r, e) ==
  IF e = MissingRelation THEN [r EXCEPT !.conn.poisoned = TRUE] ELSE r

\* An exception inside the try block of the attempt loop.
InTry(r, e) ==
  IF Caught(e) /\ RetryAllowed(r.attempt)
    THEN [Failed(r, e) EXCEPT !.pc = "reset"]
    ELSE Propagate(Failed(r, e), e)

\* run up to the attempt loop: the check of table and columns, the temporary
\* file and the connection opened, every row staged, the file rewound.
Started(r, rows) ==
  IF ~Specified(columns)
    THEN [Propagate(r, ConfigException) EXCEPT !.hist = NoHist]
    ELSE [r EXCEPT !.pc = "init", !.attempt = 0,
                   !.result = "running", !.err = "none", !.conn = FreshConn,
                   !.staged = rows, !.filepos = SeekStart,
                   !.hist = [NoHist EXCEPT !.opened = TRUE,
                                           !.stagedRows = Len(rows)]]

\* The scheduler considers task t: complete() is output().exists(); run is
\* called only for a task that is not complete.
Schedule(t) ==
  /\ pc[t] = "idle"
  /\ runs[t] < MaxRuns
  /\ runs' = [runs EXCEPT ![t] = @ + 1]
  /\ IF Exists(uid[t])
       THEN /\ skips' = [skips EXCEPT ![t] = @ + 1]
            /\ SetLocal(t, Local(t))
       ELSE /\ SetLocal(t, Started(Local(t), Rows(uid[t])))
            /\ UNCHANGED skips
  /\ UNCHANGED <<apivars, uid, columns, dbvars, touched, loaded>>

\* Mutant: a hook's exception is swallowed and run goes on to touch.
HookRaisedIgnored(r, e) == [r EXCEPT !.pc = "cmt"]

\* A hook raised e.
HookRaised(r, e) ==
  InTry([r EXCEPT !.hist.fault = TRUE,
                  !.hist.copyErr = @ \/ e # MissingRelation], e)

\* self.init_copy(connection)
InitCopy(t) ==
  /\ pc[t] = "init"
  /\ \E o \in HookOutcomes :
       LET r == [Local(t) EXCEPT !.hist.inits = @ + 1]
       IN  SetLocal(t, IF o = "ok"
                         THEN [r EXCEPT !.pc = "copy"]
                         ELSE HookRaised([r EXCEPT !.hist.raisedBy = "init"], o))
  /\ UNCHANGED <<apivars, uid, columns, runs, dbvars, skips, touched, loaded>>

\* Mutant: a copy of an empty file loads one row of nulls.
CopiedPhantom(r) ==
  [r EXCEPT !.conn.rows = @ \o (IF r.staged = <<>>
                                  THEN << <<0, 0>> >>
                                  ELSE SubSeq(r.staged, r.filepos + 1, Len(r.staged))),
            !.conn.copied = TRUE,
            !.filepos = Len(r.staged),
            !.hist.copies = @ + 1,
            !.pc = "post"]

\* cursor.copy(...): the rows from the file's position on are read into the
\* transaction.
Copied(r) ==
  [r EXCEPT !.conn.rows = @ \o SubSeq(r.staged, r.filepos + 1, Len(r.staged)),
            !.conn.copied = TRUE,
            !.filepos = Len(r.staged),
            !.hist.copies = @ + 1,
            !.pc = "post"]

\* self.copy(cursor, tmp_file)
Copy(t) ==
  /\ pc[t] = "copy"
  /\ LET r == [Local(t) EXCEPT !.hist.raisedBy = "copy"]
     IN  IF ~ColumnNames(columns).ok
           THEN SetLocal(t, InTry([r EXCEPT !.hist.copyErr = TRUE], ConfigException))
         ELSE IF ~tableExists
           THEN SetLocal(t, InTry([r EXCEPT !.hist.copies = @ + 1], MissingRelation))
         ELSE \/ SetLocal(t, Copied(Local(t)))
              \/ SetLocal(t, InTry([r EXCEPT !.hist.copies = @ + 1,
                                             !.hist.copyErr = TRUE,
                                             !.hist.fault = TRUE], QueryError))
  /\ UNCHANGED <<apivars, uid, columns, runs, dbvars, skips, touched, loaded>>

\* self.post_copy(connection); then "else: break"
PostCopy(t) ==
  /\ pc[t] = "post"
  /\ \E o \in HookOutcomes :
       LET r == [Local(t) EXCEPT !.hist.posts = @ + 1]
       IN  SetLocal(t, IF o = "ok"
                         THEN [r EXCEPT !.pc = "cmt",
                                        !.hist.postOk = @ \cup {r.attempt}]
                         ELSE HookRaised([r EXCEPT !.hist.raisedBy = "post"], o))
  /\ UNCHANGED <<apivars, uid, columns, runs, dbvars, skips, touched, loaded>>

\* Mutant: create_table on the connection as the failed statement left it.
ResetSkipped(t) ==
  /\ pc[t] = "reset"
  /\ SetLocal(t, [Local(t) EXCEPT !.pc = "create"])
  /\ UNCHANGED <<apivars, uid, columns, runs, dbvars, skips, touched, loaded>>

\* connection.reset_connection()
Reset(t) ==
  /\ pc[t] = "reset"
  /\ SetLocal(t, [Local(t) EXCEPT !.conn = FreshConn, !.pc = "create"])
  /\ UNCHANGED <<apivars, uid, columns, runs, dbvars, skips, touched, loaded>>

\* The loop goes on to its next attempt, or ends and run goes on to touch.
NextAttempt(r) ==
  IF r.attempt + 1 < NumAttempts
    THEN [r EXCEPT !.attempt = @ + 1, !.pc = "init"]
    ELSE [r EXCEPT !.pc = "cmt"]

\* self.create_table(connection): the caller's routine.  A plain CREATE TABLE
\* (the tests') fails on a table that exists; CREATE TABLE IF NOT EXISTS does not.
CreateTable(t) ==
  /\ pc[t] = "create"
  /\ LET r == [Local(t) EXCEPT !.hist.creates = @ + 1]
     IN  IF ~tableExists
           THEN /\ tableExists' = TRUE
                /\ SetLocal(t, NextAttempt(r))
           ELSE /\ \/ SetLocal(t, Propagate(r, DuplicateObject))
                   \/ SetLocal(t, NextAttempt(r))
                /\ UNCHANGED tableExists
  /\ UNCHANGED <<apivars, uid, columns, runs, tableRows, markerExists, markerRows,
                 skips, touched, loaded>>

\* touch: self.create_marker_table(), on a connection of its own.
CreateMarkerTable(t) ==
  /\ pc[t] = "cmt"
  /\ LET r == [Local(t) EXCEPT !.hist.touches = @ + 1]
     IN  IF ~markerExists
           THEN /\ markerExists' = TRUE
                /\ SetLocal(t, [r EXCEPT !.pc = "insert"])
         ELSE /\ SetLocal(t, IF Swallowed(DuplicateObject)
                               THEN [r EXCEPT !.pc = "insert"]
                               ELSE Propagate(r, DuplicateObject))
              /\ UNCHANGED markerExists
  /\ UNCHANGED <<apivars, uid, columns, runs, tableExists, tableRows, markerRows,
                 skips, touched, loaded>>

\* touch: INSERT INTO marker_table (update_id, target_table) on the load connection.
Insert(t) ==
  /\ pc[t] = "insert"
  /\ ~KeyPending(t, uid[t])
  /\ LET r == Local(t)
     IN  SetLocal(t, IF ~markerExists THEN Propagate(r, MissingRelation)
                     ELSE IF KeyTaken(uid[t]) THEN Propagate(r, IntegrityError)
                     ELSE [r EXCEPT !.conn.markers = Append(@, MarkerRow(uid[t])),
                                    !.pc = "commit"])
  /\ UNCHANGED <<apivars, uid, columns, runs, dbvars, skips, touched, loaded>>

\* Mutant: touch called without the load connection, so that the commit is
\* another connection's and the rows copied are never committed.
CommittedMarkerOnly(t) ==
  [tableRows |-> tableRows,
   markerRows |-> markerRows \o conn[t].markers,
   loaded |-> loaded,
   conn |-> FreshConn]

\* Mutant: no commit; the transaction stays open.
NotCommitted(t) ==
  [tableRows |-> tableRows, markerRows |-> markerRows, loaded |-> loaded,
   conn |-> conn[t]]

\* Mutant: the commit replaces the marker table's rows by the transaction's.
CommittedClobber(t) ==
  [tableRows |-> tableRows \o conn[t].rows,
   markerRows |-> conn[t].markers,
   loaded |-> IF conn[t].copied THEN loaded \cup {uid[t]} ELSE loaded,
   conn |-> FreshConn]

\* touch: connection.commit(), on the connection run passed to touch: the
\* rows copied and the marker row inserted in its transaction become durable.
Committed(t) ==
  [tableRows |-> tableRows \o conn[t].rows,
   markerRows |-> markerRows \o conn[t].markers,
   loaded |-> IF conn[t].copied THEN loaded \cup {uid[t]} ELSE loaded,
   conn |-> FreshConn]

Commit(t) ==
  /\ pc[t] = "commit"
  /\ LET c == Committed(t)
     IN  /\ tableRows' = c.tableRows
         /\ markerRows' = c.markerRows
         /\ loaded' = c.loaded
         /\ SetLocal(t, [Local(t) EXCEPT !.conn = c.conn, !.pc = "verify"])
  /\ UNCHANGED <<apivars, uid, columns, runs, tableExists, markerExists, skips, touched>>

\* touch: assert self.exists(connection); then run returns.
Verify(t) ==
  /\ pc[t] = "verify"
  /\ IF ExistsOn(t, uid[t])
       THEN /\ touched' = touched \cup {uid[t]}
            /\ SetLocal(t, Leaving(Local(t), "done", "none"))
       ELSE /\ SetLocal(t, Propagate(Local(t), AssertionError))
            /\ UNCHANGED touched
  /\ UNCHANGED <<apivars, uid, columns, runs, dbvars, skips, loaded>>

\* The with block's exit: connection and temporary file are closed.
Exit(t) ==
  /\ pc[t] = "exit"
  /\ SetLocal(t, Left(Local(t)))
  /\ UNCHANGED <<apivars, uid, columns, runs, dbvars, skips, touched, loaded>>

\* The worker dies in the middle of run: the server drops its connection.
\* Whether a hook had raised in the run is remembered.
Crash(t) ==
  /\ pc[t] \in InRun
  /\ SetLocal(t, [Left(Local(t)) EXCEPT
                    !.result = "crashed",
                    !.hist = [NoHist EXCEPT !.fault = hist[t].fault]])
  /\ UNCHANGED <<apivars, uid, columns, runs, dbvars, skips, touched, loaded>>

Step(t) ==
  \/ Schedule(t)
  \/ InitCopy(t)
  \/ Copy(t)
  \/ PostCopy(t)
  \/ Reset(t)
  \/ CreateTable(t)
  \/ CreateMarkerTable(t)
  \/ Insert(t)
  \/ Commit(t)
  \/ Verify(t)
  \/ Exit(t)
  \/ Crash(t)

Next == \E t \in Tasks : Step(t)

Spec == Init /\ [][Next]_vars

\* Units of work run one after another (one worker): a task is scheduled only
\* while no other task is inside run.
Alone(t) == \A o \in Tasks \ {t} : pc[o] = "idle"

ScheduleAlone(t) == Alone(t) /\ Schedule(t)

NextSeq ==
  \E t \in Tasks :
    \/ ScheduleAlone(t)
    \/ InitCopy(t)
    \/ Copy(t)
    \/ PostCopy(t)
    \/ Reset(t)
    \/ CreateTable(t)
    \/ CreateMarkerTable(t)
    \/ Insert(t)
    \/ Commit(t)
    \/ Verify(t)
    \/ Exit(t)
    \/ Crash(t)

SpecSeq == Init /\ [][NextSeq]_vars

\* ------------------------------------------------------ VerticaQuery.run
\* with self.output().connect() as connection
QueryStarted(r) ==
  [r EXCEPT !.pc = "execute", !.attempt = 0, !.result = "running",
            !.err = "none", !.conn = FreshConn,
            !.hist = [NoHist EXCEPT !.opened = TRUE]]

\* The scheduler considers the query task t, as it does a load task.
QuerySchedule(t) ==
  /\ pc[t] = "idle"
  /\ runs[t] < MaxRuns
  /\ runs' = [runs EXCEPT ![t] = @ + 1]
  /\ IF Exists(uid[t])
       THEN /\ skips' = [skips EXCEPT ![t] = @ + 1]
            /\ SetLocal(t, Local(t))
       ELSE /\ SetLocal(t, QueryStarted(Local(t)))
            /\ UNCHANGED skips
  /\ UNCHANGED <<apivars, uid, columns, dbvars, touched, loaded>>

\* Mutant: the statement's error is caught and run goes on to touch.
ExecuteFailedIgnored(r, e) == [Failed(r, e) EXCEPT !.pc = "cmt"]

\* cursor.execute(sql) raised e: nothing in run catches it.
ExecuteFailed(r, e) == Propagate(Failed(r, e), e)

\* cursor.execute(sql) returned: the statement (one that writes a row of the
\* unit into self.table) has acted in the connection's transaction.
Executed(r, u) ==
  [r EXCEPT !.conn.rows = Append(@, <<u, 1>>), !.conn.copied = TRUE, !.pc = "cmt"]

\* cursor.execute(sql), of a statement that names self.table.
Execute(t) ==
  /\ pc[t] = "execute"
  /\ LET r == [Local(t) EXCEPT !.hist.execs = @ + 1]
         f == [r EXCEPT !.hist.raisedBy = "execute"]
     IN  IF ~tableExists
           THEN SetLocal(t, ExecuteFailed(f, MissingRelation))
           ELSE \/ SetLocal(t, Executed(r, uid[t]))
                \/ SetLocal(t, ExecuteFailed([f EXCEPT !.hist.fault = TRUE],
                                             QueryError))
  /\ UNCHANGED <<apivars, uid, columns, runs, dbvars, skips, touched, loaded>>

\* The database of a query task: the table its statement names may be missing.
InitQuery ==
  /\ uid \in [Tasks -> UpdateIds]
  /\ columns = ColumnsPairs
  /\ InitQuiet
  /\ InitNoStage
  /\ tableExists \in BOOLEAN
  /\ tableRows = <<>>
  /\ markerExists = FALSE
  /\ markerRows = <<>>

NextQuery ==
  \E t \in Tasks :
    \/ QuerySchedule(t)
    \/ Execute(t)
    \/ CreateMarkerTable(t)
    \/ Insert(t)
    \/ Commit(t)
    \/ Verify(t)
    \/ Exit(t)
    \/ Crash(t)

SpecQuery == InitQuery /\ [][NextQuery]_vars

\* ----------------------------------- VerticaTarget, called by a client
\* A client (the scheduler's complete(), a test, a task of the caller's) calls
\* exists(), touch() or create_marker_table() with no connection argument.
ApiOps == {"exists", "touch", "create_marker_table"}

SetCall(c, r) == call' = [call EXCEPT ![c] = r]

\* Mutant: touch without its call of create_marker_table.
TouchFirstInsert == "insert"

\* touch: self.create_marker_table() comes first.
TouchFirst == "ddl"

\* The call begins.  exists: "if connection is None: connection =
\* self.connect()"; touch and create_marker_table begin with the CREATE TABLE.
ApiCall(c) ==
  /\ call[c].pc = "idle"
  /\ call[c].n < MaxCalls
  /\ \E op \in ApiOps, u \in UpdateIds :
       LET r == [NoCall EXCEPT !.op = op, !.uid = u, !.n = call[c].n + 1]
       IN  SetCall(c, IF op = "exists"
                        THEN [r EXCEPT !.pc = "select", !.conn = FreshConn,
                                       !.opened = 1]
                      ELSE IF op = "touch"
                        THEN [r EXCEPT !.pc = TouchFirst]
                      ELSE [r EXCEPT !.pc = "ddl"])
  /\ UNCHANGED <<taskvars, dbvars, stagevars>>

\* What the CREATE TABLE of create_marker_table may do: create the table or
\* fail because it exists, or fail for another reason.
DdlOutcomes == IF markerExists THEN {DuplicateObject, QueryError}
                               ELSE {"created", QueryError}

\* create_marker_table, whole: "with self.connect() as connection", the CREATE
\* TABLE, "except DuplicateObject: pass", and the with block's exit, which
\* closes the connection whether or not an exception is leaving.
ApiDdl(c) ==
  /\ call[c].pc = "ddl"
  /\ \E d \in DdlOutcomes :
       LET raised == IF d = "created" THEN "none" ELSE d
           r == [call[c] EXCEPT !.ddl = d, !.opened = @ + 1, !.closed = @ + 1]
       IN  /\ markerExists' = (markerExists \/ d = "created")
           /\ SetCall(c, IF raised # "none" /\ ~Swallowed(raised)
                            THEN [r EXCEPT !.pc = "ret", !.exc = raised]
                          ELSE IF r.op = "touch"
                            THEN [r EXCEPT !.pc = "insert"]
                          ELSE [r EXCEPT !.pc = "ret", !.ret = "None"])
  /\ UNCHANGED <<taskvars, tableExists, tableRows, markerRows, stagevars>>

\* An insert of a key that another client's open transaction has inserted
\* waits for it.
KeyPendingCall(c, u) == \E o \in Clients \ {c} : HasId(call[o].conn.markers, u)

\* touch: "connection = self.connect()" and the INSERT.
ApiInsert(c) ==
  /\ call[c].pc = "insert"
  /\ ~KeyPendingCall(c, call[c].uid)
  /\ LET r == [call[c] EXCEPT !.conn = FreshConn, !.opened = @ + 1]
     IN  SetCall(c, IF ~markerExists
                      THEN [r EXCEPT !.pc = "ret", !.exc = MissingRelation,
                                     !.conn.poisoned = TRUE]
                    ELSE IF KeyTaken(r.uid)
                      THEN [r EXCEPT !.pc = "ret", !.exc = IntegrityError]
                    ELSE [r EXCEPT !.pc = "commit",
                                   !.conn.markers = <<MarkerRow(r.uid)>>])
  /\ UNCHANGED <<taskvars, dbvars, stagevars>>

\* touch: connection.commit()
ApiCommit(c) ==
  /\ call[c].pc = "commit"
  /\ markerRows' = markerRows \o call[c].conn.markers
  /\ SetCall(c, [call[c] EXCEPT !.pc = "verify", !.conn.markers = <<>>])
  /\ UNCHANGED <<taskvars, tableExists, tableRows, markerExists, stagevars>>

\* touch: assert self.exists(connection)
ApiVerify(c) ==
  /\ call[c].pc = "verify"
  /\ LET s == SelectMarker(markerRows \o call[c].conn.markers, call[c].uid)
         e == ExistsFrom(s)
         r == [call[c] EXCEPT !.pc = "ret",
                              !.conn.poisoned = (s.exc = MissingRelation)]
     IN  SetCall(c, IF e.exc # "none" THEN [r EXCEPT !.exc = e.exc]
                    ELSE IF e.ret THEN [r EXCEPT !.ret = "None"]
                    ELSE [r EXCEPT !.exc = AssertionError])
  /\ UNCHANGED <<taskvars, dbvars, stagevars>>

\* exists: the SELECT on the connection exists opened, and the return.
ApiSelect(c) ==
  /\ call[c].pc = "select"
  /\ LET s == SelectMarker(markerRows, call[c].uid)
         e == ExistsFrom(s)
         r == [call[c] EXCEPT !.pc = "ret",
                              !.conn.poisoned = (s.exc = MissingRelation)]
     IN  SetCall(c, IF e.exc # "none" THEN [r EXCEPT !.exc = e.exc]
                    ELSE IF e.ret THEN [r EXCEPT !.ret = "True"]
                    ELSE [r EXCEPT !.ret = "False"])
  /\ UNCHANGED <<taskvars, dbvars, stagevars>>

\* The caller has the result; it holds no reference to a connection the call
\* opened.
ApiReturn(c) ==
  /\ call[c].pc = "ret"
  /\ SetCall(c, [NoCall EXCEPT !.n = call[c].n])
  /\ UNCHANGED <<taskvars, dbvars, stagevars>>

InitTarget ==
  /\ uid = [t \in Tasks |-> 0]
  /\ columns = ColumnsPairs
  /\ InitQuiet
  /\ InitNoStage
  /\ InitDb

NextTarget ==
  \E c \in Clients :
    \/ ApiCall(c)
    \/ ApiDdl(c)
    \/ ApiInsert(c)
    \/ ApiCommit(c)
    \/ ApiVerify(c)
    \/ ApiSelect(c)
    \/ ApiReturn(c)

SpecTarget == InitTarget /\ [][NextTarget]_vars

\* ------------------------------------- the staging loop of CopyToTable.run
\* A field of a row: None, an integer, or a text; a text is the sequence of
\* its code points.
None == [k |-> "None", n |-> 0, s |-> <<>>]
Integer(n) == [k |-> "int", n |-> n, s |-> <<>>]
Text(s) == [k |-> "text", n |-> 0, s |-> s]

Tab == 9
Newline == 10
Minus == 45
Zero == 48

RECURSIVE Decimal(_)
\* The decimal digits of n >= 0.
Decimal(n) ==
  IF n < 10 THEN <<Zero + n>>
  ELSE Decimal(n \div 10) \o <<Zero + (n % 10)>>

\* six.text_type(value)
TextType(v) ==
  CASE v.k = "None" -> <<78, 111, 110, 101>>
    [] v.k = "int" -> IF v.n < 0 THEN <<Minus>> \o Decimal(0 - v.n)
                                 ELSE Decimal(v.n)
    [] v.k = "text" -> v.s

\* Mutant: map_column without the null_values test.
MapColumnRaw(v) == TextType(v)

\* map_column
MapColumn(v) == IF v \in null_values THEN <<>> ELSE TextType(v)

\* self.column_separator, the tab of rdbms.CopyToTable.
column_separator == <<Tab>>

RECURSIVE Join(_, _)
\* sep.join(fields)
Join(sep, fields) ==
  IF Len(fields) = 0 THEN <<>>
  ELSE IF Len(fields) = 1 THEN fields[1]
  ELSE fields[1] \o sep \o Join(sep, Tail(fields))

\* rowstr = self.column_separator.join(self.map_column(val) for val in row);
\* rowstr += "\n"
RowStr(row) ==
  Join(column_separator, [i \in 1..Len(row) |-> MapColumn(row[i])]) \o <<Newline>>

\* The UTF-8 bytes of a code point below 65536.
Utf8(cp) ==
  IF cp < 128 THEN <<cp>>
  ELSE IF cp < 2048 THEN <<192 + (cp \div 64), 128 + (cp % 64)>>
  ELSE <<224 + (cp \div 4096), 128 + ((cp \div 64) % 64), 128 + (cp % 64)>>

RECURSIVE Encode(_)
\* rowstr.encode('utf-8')
Encode(text) ==
  IF text = <<>> THEN <<>> ELSE Utf8(Head(text)) \o Encode(Tail(text))

\* The rows a task's rows() may yield, after the tests' rows: "foo", 123;
\* None, "-100", "5.2"; the two-character text U+00E9 U+6211, 0, 0;
\* None, 0, ""; -100; and a row of no field.
RowChoices ==
  { <<Text(<<102, 111, 111>>), Integer(123)>>,
    <<None, Text(<<45, 49, 48, 48>>), Text(<<53, 46, 50>>)>>,
    <<Text(<<233, 25105>>), Integer(0), Integer(0)>>,
    <<None, Integer(0), Text(<<>>)>>,
    <<Integer(0 - 100)>>,
    <<>> }

\* The null_values a task class may configure; (None,) is the default.
NullChoices ==
  { {None}, {}, {None, Text(<<>>)}, {None, Text(<<45, 49, 48, 48>>), Integer(0)} }

\* for row in self.rows(): ... tmp_file.write(rowstr.encode('utf-8'))
WriteRow ==
  /\ Len(tmp_file) < Len(row_source)
  /\ tmp_file' = Append(tmp_file, Encode(RowStr(row_source[Len(tmp_file) + 1])))
  /\ UNCHANGED <<taskvars, dbvars, call, null_values, row_source>>

InitStage ==
  /\ uid = [t \in Tasks |-> 0]
  /\ columns = ColumnsPairs
  /\ InitQuiet
  /\ InitDb
  /\ null_values \in NullChoices
  /\ row_source \in UNION {[1..n -> RowChoices] : n \in 0..MaxRows}
  /\ tmp_file = <<>>

NextStage == WriteRow

SpecStage == InitStage /\ [][NextStage]_vars

\* ----------------------------------------------------------------- claims
\* No other task runs the unit of work of task t.
UidUnique(t) == \A o \in Tasks \ {t} : uid[o] # uid[t]

AllDistinct == \A t \in Tasks : UidUnique(t)

\* The committed rows of the target table that unit u copied, in table order.
RowsOf(u) == SelectSeq(tableRows, LAMBDA r : r[1] = u)

\* The number of committed marker rows of unit u.
MarkerCount(u) == Cardinality({i \in 1..Len(markerRows) : markerRows[i].update_id = u})

\* C1: once a copy attempt (init_copy, copy or post_copy, on either attempt)
\* has failed with an error other than relation-missing, run is leaving or has
\* left with that failure, touch has not been called, and (no other worker
\* running the same unit) no marker row of the unit exists.
C1_CopyErrorNoMarker ==
  \A t \in Tasks :
    hist[t].copyErr =>
      /\ pc[t] \in {"exit", "idle"}
      /\ result[t] = "failed"
      /\ pc[t] = "exit" => err[t] \in {QueryError, ConfigException}
      /\ hist[t].touches = 0
      /\ UidUnique(t) => MarkerCount(uid[t]) = 0

\* A copy error on the second attempt, after the table was created, propagates.
C1_Witness ==
  \E t \in Tasks :
    /\ hist[t].copyErr /\ pc[t] = "exit" /\ err[t] = QueryError
    /\ attempt[t] = 1 /\ hist[t].copies = 2 /\ UidUnique(t)

C3_RetryOnce ==
  \A t \in Tasks :
    /\ hist[t].creates <= 1
    /\ hist[t].copies <= 2
    /\ hist[t].inits <= 2
    /\ attempt[t] = 1 => hist[t].creates = 1
    /\ (hist[t].touches > 0 /\ hist[t].creates = 1 /\ ~hist[t].fault)
         => hist[t].copies = 2
    /\ (pc[t] = "exit" /\ err[t] = MissingRelation)
         => attempt[t] = 1 /\ hist[t].creates = 1 /\ hist[t].touches = 0

\* The table was missing, was created, and the second attempt failed with
\* relation-missing too.
C3_Witness ==
  \E t \in Tasks :
    /\ pc[t] = "exit" /\ err[t] = MissingRelation
    /\ hist[t].creates = 1 /\ hist[t].copies = 2

\* C4 (as claimed): a run that returns after create_table has loaded exactly
\* the rows of rows(), each once and in order.
C4_RetryLoadsAll ==
  \A t \in Tasks :
    (pc[t] = "exit" /\ result[t] = "done" /\ hist[t].creates = 1 /\ UidUnique(t))
      => RowsOf(uid[t]) = Rows(uid[t])

\* C5: once touch for an update_id has returned normally, exists for it is
\* true, in that state and in every later one.
C5_TouchedExists == \A u \in touched : markerExists /\ MarkerCount(u) > 0

\* touch has returned for two update_ids, one after the other.
C5_Witness ==
  \E t, o \in Tasks :
    /\ uid[t] # uid[o] /\ uid[t] \in touched /\ uid[o] \in touched
    /\ result[t] = "done" /\ result[o] = "done"

\* C6: with units run one after another, no task whose unit is complete is
\* inside run, but for the one whose run is just returning; the unit has one
\* marker row, and its rows are in the target table once each (all of them
\* when no hook raised in its run).
C6_SecondRunNoOp ==
  \A t \in Tasks :
    uid[t] \in touched =>
      /\ pc[t] = "idle" \/ (pc[t] = "exit" /\ result[t] = "done")
      /\ MarkerCount(uid[t]) = 1
      /\ Len(RowsOf(uid[t])) <= Len(Rows(uid[t]))
      /\ (result[t] = "done" /\ ~hist[t].fault) => RowsOf(uid[t]) = Rows(uid[t])

\* A task scheduled again after its own successful run.
C6_Witness ==
  \E t \in Tasks :
    /\ result[t] = "done" /\ pc[t] = "idle" /\ skips[t] > 0 /\ runs[t] = 2
    /\ Len(RowsOf(uid[t])) > 0

\* C7: the marker table holds at most one row per update_id.
C7_UniqueMarker == \A u \in UpdateIds : MarkerCount(u) <= 1

\* Two workers touched the same update_id; the second insert was rejected.
C7_Witness ==
  \E t \in Tasks :
    /\ pc[t] = "exit" /\ err[t] = IntegrityError
    /\ ~UidUnique(t) /\ MarkerCount(uid[t]) = 1

RECURSIVE SumRows(_)
SumRows(S) ==
  IF S = {} THEN 0
  ELSE LET u == CHOOSE x \in S : TRUE IN Len(Rows(u)) + SumRows(S \ {u})

\* The units whose marker row is committed.
Marked == {u \in UpdateIds : MarkerCount(u) > 0}

\* No hook or statement of a run that is going on or has returned was failed
\* by the environment.
Clean == \A t \in Tasks : ~hist[t].fault

ColumnsOk == Specified(columns) /\ ColumnNames(columns).ok

\* C8: with units of distinct update_ids run one after another on the same
\* table: a run fails only when a hook or statement of its own was failed by
\* the environment; every unit that completed keeps exactly one marker row,
\* naming the table, whatever units completed after it; and the target table
\* holds the rows of the completed units and no others.
C8_UnitsIndependent ==
  (AllDistinct /\ ColumnsOk) =>
    /\ \A t \in Tasks :
         /\ (pc[t] = "exit" /\ result[t] = "failed") => hist[t].fault
         /\ result[t] = "done" =>
              /\ MarkerCount(uid[t]) = 1
              /\ \E i \in 1..Len(markerRows) : markerRows[i] = MarkerRow(uid[t])
    /\ Clean => Len(tableRows) = SumRows(Marked)

\* Every unit has completed, the first on a table it created, the others after.
C8_Witness ==
  /\ AllDistinct
  /\ Clean
  /\ \A t \in Tasks : result[t] = "done" /\ pc[t] = "idle"
  /\ Len(tableRows) = SumRows({uid[t] : t \in Tasks})
  /\ Len(tableRows) > 0

\* C9 (as claimed): of units with distinct update_ids running concurrently on
\* a database that had neither table, with no hook or statement failed by the
\* environment, none fails.
C9_NoInterference ==
  \A t \in Tasks :
    (AllDistinct /\ ColumnsOk /\ Clean /\ (\A o \in Tasks : runs[o] <= 1)
       /\ pc[t] = "exit")
      => result[t] # "failed"

\* C10 (as claimed): the configuration error of a bad columns shape leaves run
\* before a connection is opened, a row is staged or init_copy is called.
C10_ConfigErrorBeforeIO ==
  \A t \in Tasks :
    (pc[t] = "exit" /\ err[t] = ConfigException)
      => ~hist[t].opened /\ hist[t].stagedRows = 0 /\ hist[t].inits = 0

\* C11: exists never raises relation-missing: on a database without the marker
\* table it returns False, and it returns True exactly when the marker table
\* exists and holds a row of the update_id.
C11_ExistsMissingTable ==
  /\ [](\A c \in Clients : call[c].op = "exists" => call[c].exc = "none")
  /\ [][\A c \in Clients :
          (call[c].pc = "select" /\ call'[c].pc = "ret") =>
            /\ call'[c].exc = "none"
            /\ call'[c].ret \in {"True", "False"}
            /\ ~markerExists => call'[c].ret = "False"
            /\ call'[c].ret = "True" <=>
                 (markerExists /\ MarkerCount(call[c].uid) > 0)]_vars

\* exists has returned False on a database that has no marker table.
C11_Witness ==
  \E c \in Clients :
    /\ call[c].op = "exists" /\ call[c].pc = "ret"
    /\ call[c].ret = "False" /\ call[c].exc = "none" /\ ~markerExists

\* The commit of the touch of client c.
TouchCommits(c) == call[c].pc = "commit" /\ call'[c].pc = "verify"

\* C12: touch inserts only into a marker table that exists (it has created it
\* when it was missing) and never fails with relation-missing; the marker rows
\* change only by a touch's commit, which appends the one row (update_id,
\* target_table) and leaves every earlier row as it was; a touch that returned
\* has left exactly one row of its update_id, naming its table.
C12_TouchAddsOneRow ==
  /\ [](\A c \in Clients :
          call[c].op = "touch" =>
            /\ call[c].exc # MissingRelation
            /\ call[c].pc \in {"insert", "commit", "verify"} => markerExists
            /\ (call[c].pc = "ret" /\ call[c].exc = "none") =>
                 /\ MarkerCount(call[c].uid) = 1
                 /\ \E i \in 1..Len(markerRows) :
                      markerRows[i] = [update_id |-> call[c].uid,
                                       target_table |-> TableName])
  /\ [][markerRows' # markerRows =>
          \E c \in Clients :
            /\ TouchCommits(c)
            /\ markerRows' = Append(markerRows, MarkerRow(call[c].uid))]_vars

\* A touch that created the marker table has returned, another touch's row
\* having been committed before its own.
C12_Witness ==
  \E c \in Clients :
    /\ call[c].op = "touch" /\ call[c].pc = "ret" /\ call[c].exc = "none"
    /\ call[c].ddl = "created" /\ Len(markerRows) = 2
    /\ markerRows[2].update_id = call[c].uid

\* C13: the CREATE TABLE step of create_marker_table changes no marker row;
\* on a marker table that exists it fails with already-exists, which is
\* swallowed (create_marker_table returns None, touch goes on), and the table
\* stays; any other failure of the statement leaves the call as an exception.
C13_CreateMarkerTableIdempotent ==
  [][\A c \in Clients :
      (call[c].pc = "ddl" /\ call'[c].pc # "ddl") =>
        /\ markerRows' = markerRows
        /\ markerExists => markerExists' /\ call'[c].ddl # "created"
        /\ call'[c].ddl = "created" => ~markerExists /\ markerExists'
        /\ call'[c].ddl \in {"created", DuplicateObject} =>
             /\ call'[c].exc = "none"
             /\ call[c].op = "create_marker_table" =>
                  call'[c].pc = "ret" /\ call'[c].ret = "None"
             /\ call[c].op = "touch" => call'[c].pc = "insert"
        /\ call'[c].ddl = QueryError =>
             /\ call'[c].pc = "ret" /\ call'[c].exc = QueryError
             /\ markerExists' = markerExists]_vars

\* create_marker_table has returned normally from a table that another call,
\* still going on, had created.
C13_Witness ==
  \E c, d \in Clients :
    /\ c # d
    /\ call[c].op = "create_marker_table" /\ call[c].pc = "ret"
    /\ call[c].ddl = DuplicateObject /\ call[c].exc = "none"
    /\ call[d].ddl = "created" /\ call[d].pc # "idle"
    /\ Len(markerRows) > 0

\* C14: VerticaQuery.run executes its statement at most once and never calls
\* create_table; it is in touch only after the statement returned; a statement
\* that failed, with relation-missing or another error, leaves run as that
\* error, touch not called, and (no other worker running the same unit) no
\* marker row of the unit exists.
C14_QueryNoRetry ==
  \A t \in Tasks :
    /\ hist[t].execs <= 1
    /\ hist[t].creates = 0
    /\ (hist[t].touches > 0 \/ pc[t] = "cmt") =>
         hist[t].execs = 1 /\ hist[t].raisedBy = "none"
    /\ hist[t].raisedBy = "execute" =>
         /\ pc[t] = "exit" /\ result[t] = "failed"
         /\ err[t] \in {MissingRelation, QueryError}
         /\ hist[t].execs = 1 /\ hist[t].touches = 0
         /\ UidUnique(t) => MarkerCount(uid[t]) = 0

\* The statement named a missing relation, and the error is leaving run.
C14_Witness ==
  \E t \in Tasks :
    /\ pc[t] = "exit" /\ err[t] = MissingRelation /\ hist[t].execs = 1
    /\ ~tableExists /\ UidUnique(t)

\* C15: a load whose rows() yields no row has copied (an empty file) when it
\* comes to touch, and the transaction touch commits holds no row for the
\* target table; when run returns, exists for the unit is true, on one marker
\* row, and the table holds no row of the unit.
C15_EmptyLoadMarked ==
  \A t \in Tasks :
    Rows(uid[t]) = <<>> =>
      /\ pc[t] \in {"cmt", "insert", "commit"} =>
           /\ hist[t].copies >= 1 /\ hist[t].stagedRows = 0
           /\ conn[t].copied /\ conn[t].rows = <<>>
      /\ (pc[t] = "exit" /\ result[t] = "done") =>
           /\ hist[t].copies >= 1
           /\ Exists(uid[t]) /\ MarkerCount(uid[t]) = 1
           /\ RowsOf(uid[t]) = <<>>

\* An empty load has returned, on a table that holds another unit's rows.
C15_Witness ==
  \E t \in Tasks :
    /\ Rows(uid[t]) = <<>> /\ pc[t] = "exit" /\ result[t] = "done"
    /\ hist[t].copies >= 1 /\ Len(tableRows) > 0

RECURSIVE Decode(_)
\* The code points that UTF-8 bytes stand for.
Decode(bytes) ==
  IF bytes = <<>> THEN <<>>
  ELSE IF bytes[1] < 128
    THEN <<bytes[1]>> \o Decode(SubSeq(bytes, 2, Len(bytes)))
  ELSE IF bytes[1] < 224
    THEN <<(bytes[1] - 192) * 64 + (bytes[2] - 128)>>
           \o Decode(SubSeq(bytes, 3, Len(bytes)))
  ELSE <<(bytes[1] - 224) * 4096 + (bytes[2] - 128) * 64 + (bytes[3] - 128)>>
         \o Decode(SubSeq(bytes, 4, Len(bytes)))

\* What the claim has a field staged as.
ExpectedField(v) == IF v \in null_values THEN <<>> ELSE TextType(v)

RECURSIVE FieldStart(_, _)
\* The characters of a row's line that come before its field j.
FieldStart(row, j) ==
  IF j = 1 THEN 0
  ELSE FieldStart(row, j - 1) + Len(ExpectedField(row[j - 1])) + Len(column_separator)

\* The line is the row's fields, each where it belongs, a separator after each
\* but the last, and a newline at the end.
LineOk(row, line) ==
  LET n == Len(row)
      end(j) == FieldStart(row, j) + Len(ExpectedField(row[j]))
  IN  /\ Len(line) = (IF n = 0 THEN 0 ELSE end(n)) + 1
      /\ line[Len(line)] = Newline
      /\ \A j \in 1..n :
           /\ SubSeq(line, FieldStart(row, j) + 1, end(j)) = ExpectedField(row[j])
           /\ j < n => SubSeq(line, end(j) + 1, FieldStart(row, j + 1))
                         = column_separator

C17_StepOrder ==
  \A t \in Tasks :
    /\ pc[t] \in {"copy", "post"} => hist[t].inits = attempt[t] + 1
    /\ hist[t].copies <= hist[t].inits
    /\ hist[t].posts <= hist[t].copies
    /\ pc[t] = "post" => hist[t].copies >= 1 /\ attempt[t] \notin hist[t].postOk
    /\ (hist[t].touches > 0 \/ pc[t] = "cmt") => attempt[t] \in hist[t].postOk
    /\ (hist[t].raisedBy = "post" /\ hist[t].copyErr) =>
         /\ pc[t] = "exit" /\ result[t] = "failed" /\ err[t] = QueryError
         /\ hist[t].touches = 0
         /\ UidUnique(t) => MarkerCount(uid[t]) = 0 /\ RowsOf(uid[t]) = <<>>

\* post_copy failed on the second attempt, after rows had been copied.
C17_Witness ==
  \E t \in Tasks :
    /\ pc[t] = "exit" /\ hist[t].raisedBy = "post" /\ err[t] = QueryError
    /\ attempt[t] = 1 /\ conn[t].rows # <<>> /\ UidUnique(t)

\* C18 (as claimed): create_table is called only after the copy step of the
\* first attempt failed with relation-missing, not after init_copy or
\* post_copy raised it.
C18_CreateOnlyAfterCopy ==
  \A t \in Tasks :
    pc[t] = "create" => hist[t].raisedBy = "copy" /\ attempt[t] = 0

\* C19: on the load connection no step executes a statement while the
\* connection is as a relation-missing failure left it: the failure is
\* followed by reset_connection or by run's exit, create_table runs on the
\* connection as reset left it, and the second attempt follows create_table.
C19_ResetBeforeReuse ==
  \A t \in Tasks :
    /\ conn[t].poisoned => pc[t] \in {"reset", "exit"}
    /\ pc[t] = "reset" => conn[t].poisoned
    /\ pc[t] = "create" => conn[t] = FreshConn
    /\ attempt[t] = 1 => hist[t].creates = 1

\* The retried copy is about to run, after failed copy, reset and create_table.
C19_Witness ==
  \E t \in Tasks :
    /\ pc[t] = "copy" /\ attempt[t] = 1 /\ hist[t].raisedBy = "copy"
    /\ hist[t].creates = 1 /\ ~conn[t].poisoned /\ tableExists

\* C20 (as claimed): when a call of exists, touch or create_marker_table
\* returns or raises, every connection it opened has been closed.
C20_ConnectionsClosed ==
  \A c \in Clients :
    call[c].pc = "ret" => call[c].opened = call[c].closed /\ ~call[c].conn.open

====
